---- MODULE Spec2Model ----
(***************************************************************************)
(* Descriptors of descriptor/data_descriptor.py and                        *)
(* descriptor/slottable_data_descriptor.py:                                *)
(*   ReadOnly, BaseDataDescriptor, DefaultDescriptor,                      *)
(*   BaseSlottableDataDescriptor, SlottableDefaultDescriptor.              *)
(*                                                                         *)
(* A behaviour is one class declaring either a ReadOnly descriptor, or a   *)
(* field-storage descriptor next to the slottable descriptor of the same   *)
(* family (as the parametrised fixtures of                                 *)
(* tests/functional/test_data_descriptor.py pair them).  Every attribute   *)
(* access of the driver is made through each descriptor the class          *)
(* declares, so the two storage strategies see the same operations.        *)
(***************************************************************************)
EXTENDS Integers, FiniteSets, TLC

\* ---------------------------------------------------------------- bounds
\* number of owning objects a behaviour may create, one after another or
\* side by side
NumObjs == 2

Objs == 1..NumObjs
\* identity tokens id() returns: the token 0, which python takes for false,
\* and a token it takes for true.  id() is unique among the objects alive,
\* so two owners at most are alive at a time; a later owner is given the
\* token of a destroyed one.
Ids == {0, 1}
\* the attribute names a descriptor may be declared under
Names == {"first_name", "last_name"}

\* ------------------------------------------------------- python values
\* every python value is a record [type, val]; val is the payload
Str(s) == [type |-> "str", val |-> s]
None == [type |-> "NoneType", val |-> "None"]
\* a Reference(reference, value) tuple supplied by the caller; val is the
\* payload of its .value field (a str)
RefVal(s) == [type |-> "Reference", val |-> s]
\* NO_DEFAULT = object()
NO_DEFAULT == [type |-> "object", val |-> "NO_DEFAULT"]
\* raised exceptions
AttributeError == [type |-> "AttributeError", val |-> "raised"]
TypeError == [type |-> "TypeError", val |-> "raised"]
\* the descriptor object itself
SelfOf(kind) == [type |-> "descriptor", val |-> kind]
\* self._property_name before any __set_name__: the attribute is missing
Unbound == "<unbound>"
\* instance argument of a class-level access
NoInstance == [obj |-> 0, status |-> "none", id |-> 0 - 1, hasDict |-> FALSE,
               weakrefable |-> FALSE, dict |-> [n \in {} |-> None]]
\* instance is None
IsNone(instance) == instance.obj = 0

\* the owning object o itself, as a value
Inst(o) == [type |-> "instance", val |-> ToString(o)]

\* str values, and the default arguments descriptors are constructed with
Values == {Str("Guido"), Str("Raymond")}
\* values the driver writes through instance o: a str, and the instance
\* itself (instance.attr = instance)
Writes(o) == {Str("Guido"), Inst(o)}
Defaults == {NO_DEFAULT, None, Str("Guido"), RefVal("Raymond")}

FieldKinds == {"BaseDataDescriptor", "DefaultDescriptor"}
SlottableKinds == {"BaseSlottableDataDescriptor", "SlottableDefaultDescriptor"}
DefaultKinds == {"DefaultDescriptor", "SlottableDefaultDescriptor"}
WritableKinds == FieldKinds \cup SlottableKinds

\* the descriptors one class declares
Declarations == {{"ReadOnly"},
                 {"BaseDataDescriptor", "BaseSlottableDataDescriptor"},
                 {"DefaultDescriptor", "SlottableDefaultDescriptor"}}

\* the key None of a scan that found nothing
NoKey == 0 - 1

\* ------------------------------------------------------------- helpers
EmptyDict == [n \in {} |-> None]
DictSet(d, k, v) == [n \in DOMAIN d \cup {k} |-> IF n = k THEN v ELSE d[n]]
DictDel(d, k) == [n \in DOMAIN d \ {k} |-> d[n]]

\* outcome of one handler: what it returned or raised (exc), the descriptor
\* and the instance as it leaves them
Outcome(res, self, instance) == [res |-> res, self |-> self, instance |-> instance]

IsException(r) == r.type \in {"AttributeError", "TypeError"}

\* weakref.ref(instance, callback): a new weak reference object, distinct
\* from every weak reference the descriptor still holds
NewWeakRef(self, instance) ==
    LET used == {self._references[k].reference.wid : k \in DOMAIN self._references}
    IN  [wid |-> CHOOSE n \in 1..(Cardinality(used) + 1) : n \notin used,
         obj |-> instance.obj]

\* ------------------------------------------------------------ ReadOnly
ReadOnly__init__(value) ==
    [kind |-> "ReadOnly", _value |-> value, default |-> NO_DEFAULT,
     _property_name |-> Unbound, _references |-> [k \in {} |-> None]]

ReadOnly__get__(self, instance) ==
    IF IsNone(instance)
    THEN Outcome(SelfOf(self.kind), self, instance)
    ELSE Outcome(self._value, self, instance)

\* variant: the write is carried out instead of refused
Mut_ReadOnly__set__Stores(self, instance, value) ==
    Outcome(None, [self EXCEPT !._value = value], instance)

ReadOnly__set__(self, instance, value) ==
    Outcome(AttributeError, self, instance)

ReadOnly__delete__(self, instance) ==
    Outcome(AttributeError, self, instance)

\* -------------------------------------------------- BaseDataDescriptor
BaseDataDescriptor__init__ ==
    [kind |-> "BaseDataDescriptor", _value |-> None, default |-> NO_DEFAULT,
     _property_name |-> Unbound, _references |-> [k \in {} |-> None]]

\* __set_name__ of the three classes: self._property_name = name
Descriptor__set_name__(self, name) ==
    [self EXCEPT !._property_name = name]

\* instance.__dict__[self._property_name] = value
BaseDataDescriptor__set__(self, instance, value) ==
    IF ~instance.hasDict \/ self._property_name = Unbound
    THEN Outcome(AttributeError, self, instance)
    ELSE Outcome(None, self,
                 [instance EXCEPT !.dict = DictSet(@, self._property_name, value)])

BaseDataDescriptor__get__(self, instance) ==
    IF IsNone(instance)
    THEN Outcome(SelfOf(self.kind), self, instance)
    ELSE IF ~instance.hasDict \/ self._property_name = Unbound
    THEN Outcome(AttributeError, self, instance)
    ELSE IF self._property_name \in DOMAIN instance.dict
    THEN Outcome(instance.dict[self._property_name], self, instance)
    ELSE Outcome(AttributeError, self, instance)

BaseDataDescriptor__delete__(self, instance) ==
    Outcome(AttributeError, self, instance)

\* --------------------------------------------------- DefaultDescriptor
DefaultDescriptor__init__(default) ==
    [kind |-> "DefaultDescriptor", _value |-> None, default |-> default,
     _property_name |-> Unbound, _references |-> [k \in {} |-> None]]

\* variant: the default path stores the default: __dict__.setdefault
Mut_Default__get__StoresDefault(self, instance) ==
    IF IsNone(instance)
    THEN Outcome(SelfOf(self.kind), self, instance)
    ELSE IF self.default = NO_DEFAULT
    THEN BaseDataDescriptor__get__(self, instance)
    ELSE IF ~instance.hasDict \/ self._property_name = Unbound
    THEN Outcome(AttributeError, self, instance)
    ELSE IF self._property_name \in DOMAIN instance.dict
    THEN Outcome(instance.dict[self._property_name], self, instance)
    ELSE Outcome(self.default, self,
                 [instance EXCEPT !.dict = DictSet(@, self._property_name, self.default)])

DefaultDescriptor__get__(self, instance) ==
    IF IsNone(instance)
    THEN Outcome(SelfOf(self.kind), self, instance)
    ELSE IF self.default = NO_DEFAULT
    THEN BaseDataDescriptor__get__(self, instance)
    ELSE IF ~instance.hasDict \/ self._property_name = Unbound
    THEN Outcome(AttributeError, self, instance)
    ELSE IF self._property_name \in DOMAIN instance.dict
    THEN Outcome(instance.dict[self._property_name], self, instance)
    ELSE Outcome(self.default, self, instance)

\* ----------------------------------------- BaseSlottableDataDescriptor
BaseSlottableDataDescriptor__init__ ==
    [kind |-> "BaseSlottableDataDescriptor", _value |-> None,
     default |-> NO_DEFAULT, _property_name |-> Unbound,
     _references |-> [k \in {} |-> None]]

\* Reference(NamedTuple)
Reference(reference, value) == [reference |-> reference, value |-> value]

\* variant: the record is keyed by a token every instance shares
Mut_Slottable__set__SharedKey(self, instance, value) ==
    IF ~instance.weakrefable
    THEN Outcome(TypeError, self, instance)
    ELSE Outcome(None,
                 [self EXCEPT !._references =
                     DictSet(@, 0, Reference(NewWeakRef(self, instance), value))],
                 instance)

\* variant: the record is keyed by the identity of the weak reference
Mut_Slottable__set__KeyedByWeakRef(self, instance, value) ==
    IF ~instance.weakrefable
    THEN Outcome(TypeError, self, instance)
    ELSE LET _weak_ref == NewWeakRef(self, instance)
         IN  Outcome(None,
                     [self EXCEPT !._references =
                         DictSet(@, _weak_ref.wid, Reference(_weak_ref, value))],
                     instance)

BaseSlottableDataDescriptor__set__(self, instance, value) ==
    IF ~instance.weakrefable
    THEN Outcome(TypeError, self, instance)
    ELSE LET _weak_ref == NewWeakRef(self, instance)
             reference == Reference(_weak_ref, value)
             _instance_id == instance.id
         IN  Outcome(None,
                     [self EXCEPT !._references = DictSet(@, _instance_id, reference)],
                     instance)

BaseSlottableDataDescriptor__get__(self, instance) ==
    IF IsNone(instance)
    THEN Outcome(SelfOf(self.kind), self, instance)
    ELSE LET _instance_id == instance.id
         IN  IF _instance_id \in DOMAIN self._references
             THEN Outcome(self._references[_instance_id].value, self, instance)
             ELSE Outcome(AttributeError, self, instance)

\* variant: delete removes the record of the instance
Mut_Slottable__delete__Removes(self, instance) ==
    IF instance.id \in DOMAIN self._references
    THEN Outcome(None, [self EXCEPT !._references = DictDel(@, instance.id)], instance)
    ELSE Outcome(AttributeError, self, instance)

BaseSlottableDataDescriptor__delete__(self, instance) ==
    Outcome(AttributeError, self, instance)

\* variant: the scan returns the last key it visits, matching or not
Mut_find_weak_ref_key_LastKey(self, weak_ref) ==
    IF DOMAIN self._references = {} THEN NoKey
    ELSE CHOOSE k \in DOMAIN self._references :
             \A j \in DOMAIN self._references : j <= k

\* for key, reference in self._references.items():
\*     if reference.reference is weak_ref: return key
BaseSlottableDataDescriptor_find_weak_ref_key(self, weak_ref) ==
    LET found == {k \in DOMAIN self._references :
                     self._references[k].reference = weak_ref}
    IN  IF found = {} THEN NoKey ELSE CHOOSE k \in found : TRUE

\* python truth value of an int-or-None key
Truthy(key) == key # NoKey /\ key # 0

\* variant: the callback empties the mapping once it found the key
Mut_delete_reference_Clears(self, weak_ref) ==
    LET key == BaseSlottableDataDescriptor_find_weak_ref_key(self, weak_ref)
    IN  IF key # NoKey
        THEN [self EXCEPT !._references = [k \in {} |-> None]]
        ELSE self

\* key = self._find_weak_ref_key(weak_ref); if key: del self._references[key]
BaseSlottableDataDescriptor_delete_reference(self, weak_ref) ==
    LET key == BaseSlottableDataDescriptor_find_weak_ref_key(self, weak_ref)
    IN  IF Truthy(key)
        THEN [self EXCEPT !._references = DictDel(@, key)]
        ELSE self

\* ------------------------------------------ SlottableDefaultDescriptor
SlottableDefaultDescriptor__init__(default) ==
    [kind |-> "SlottableDefaultDescriptor", _value |-> None,
     default |-> default, _property_name |-> Unbound,
     _references |-> [k \in {} |-> None]]

\* isinstance(x, Reference) and x.value, for a caller-supplied python value
IsReference(x) == x.type = "Reference"
ValueOfReference(x) == Str(x.val)

\* variant: the default is looked up before the class-access test
Mut_SlottableDefault__get__NoClassTest(self, instance) ==
    IF self.default = NO_DEFAULT
    THEN BaseSlottableDataDescriptor__get__(self, instance)
    ELSE IF instance.id \in DOMAIN self._references
    THEN Outcome(self._references[instance.id].value, self, instance)
    ELSE IF IsReference(self.default)
    THEN Outcome(ValueOfReference(self.default), self, instance)
    ELSE Outcome(self.default, self, instance)

SlottableDefaultDescriptor__get__(self, instance) ==
    IF IsNone(instance)
    THEN Outcome(SelfOf(self.kind), self, instance)
    ELSE IF self.default = NO_DEFAULT
    THEN BaseSlottableDataDescriptor__get__(self, instance)
    ELSE LET _instance_id == instance.id
         IN  IF _instance_id \in DOMAIN self._references
             \* .get returned the stored Reference tuple
             THEN Outcome(self._references[_instance_id].value, self, instance)
             \* .get returned _default
             ELSE IF IsReference(self.default)
             THEN Outcome(ValueOfReference(self.default), self, instance)
             ELSE Outcome(self.default, self, instance)

\* ---------------------------------------------------------- dispatch
\* the handler python's attribute protocol calls for a descriptor of a kind
Dispatch__get__(self, instance) ==
    CASE self.kind = "ReadOnly" -> ReadOnly__get__(self, instance)
      [] self.kind = "BaseDataDescriptor" -> BaseDataDescriptor__get__(self, instance)
      [] self.kind = "DefaultDescriptor" -> DefaultDescriptor__get__(self, instance)
      [] self.kind = "BaseSlottableDataDescriptor" ->
             BaseSlottableDataDescriptor__get__(self, instance)
      [] self.kind = "SlottableDefaultDescriptor" ->
             SlottableDefaultDescriptor__get__(self, instance)

Dispatch__set__(self, instance, value) ==
    CASE self.kind = "ReadOnly" -> ReadOnly__set__(self, instance, value)
      [] self.kind \in FieldKinds -> BaseDataDescriptor__set__(self, instance, value)
      [] self.kind \in SlottableKinds ->
             BaseSlottableDataDescriptor__set__(self, instance, value)

Dispatch__delete__(self, instance) ==
    CASE self.kind = "ReadOnly" -> ReadOnly__delete__(self, instance)
      [] self.kind \in FieldKinds -> BaseDataDescriptor__delete__(self, instance)
      [] self.kind \in SlottableKinds ->
             BaseSlottableDataDescriptor__delete__(self, instance)

\* --------------------------------------------------------------- state
VARIABLES
    desc,      \* kind -> descriptor object, for the kinds the class declares
    objs,      \* owning objects: status, id(), layout and __dict__
    pending,   \* weak references whose referent died and whose callback is due
    written,   \* kind -> object -> value of the last write that succeeded
    ctor       \* the constructor argument of the declared descriptors, and
               \* the layout of the class: whether its instances have a
               \* __dict__, and whether they have a __weakref__ slot

vars == <<desc, objs, pending, written, ctor>>

Installed == DOMAIN desc
NotWritten == [type |-> "NotWritten", val |-> "NotWritten"]

\* an object that does not exist (not yet created, or destroyed)
Gone(o, status) == [obj |-> o, status |-> status, id |-> 0 - 1, hasDict |-> FALSE,
                    weakrefable |-> FALSE, dict |-> EmptyDict]
Live == {o \in Objs : objs[o].status = "live"}

Construct(kind, arg) ==
    CASE kind = "ReadOnly" -> ReadOnly__init__(arg)
      [] kind = "BaseDataDescriptor" -> BaseDataDescriptor__init__
      [] kind = "DefaultDescriptor" -> DefaultDescriptor__init__(arg)
      [] kind = "BaseSlottableDataDescriptor" -> BaseSlottableDataDescriptor__init__
      [] kind = "SlottableDefaultDescriptor" -> SlottableDefaultDescriptor__init__(arg)

\* constructor arguments a declaration may be built with
CtorArgs(decl) ==
    IF decl = {"ReadOnly"} THEN Values
    ELSE IF decl \subseteq DefaultKinds THEN Defaults
    ELSE {NO_DEFAULT}

Init ==
    \E decl \in Declarations : \E arg \in CtorArgs(decl) :
        /\ desc = [h \in decl |-> Construct(h, arg)]
        /\ \E hasDict \in BOOLEAN, weakrefable \in BOOLEAN :
               ctor = [arg |-> arg, hasDict |-> hasDict, weakrefable |-> weakrefable]
        /\ objs = [o \in Objs |-> Gone(o, "unborn")]
        /\ pending = {}
        /\ written = [h \in decl |-> [o \in Objs |-> NotWritten]]

\* weak references a descriptor holds in its records
HeldRefs(self) == {self._references[k].reference : k \in DOMAIN self._references}

\* a weak reference object no record holds any more is deallocated, and its
\* callback is never called
StillHeld(p, d) == {x \in p : x.ref \in HeldRefs(d[x.kind])}

\* the value of a record is a strong reference: a descriptor, which lives
\* as long as the class, keeps the object its record's value refers to
\* reachable
KeptReachable(o) ==
    \E h \in Installed : \E k \in DOMAIN desc[h]._references :
        desc[h]._references[k].value = Inst(o)

\* the instance as the handlers of the declared descriptors leave it
InstanceAfter(o, out) ==
    IF \E h \in Installed : out[h].instance # objs[o]
    THEN out[CHOOSE h \in Installed : out[h].instance # objs[o]].instance
    ELSE objs[o]

\* the declared descriptors and the instance after a handler ran on each
Ran(o, out) ==
    /\ desc' = [h \in Installed |-> out[h].self]
    /\ objs' = IF o \in Objs THEN [objs EXCEPT ![o] = InstanceAfter(o, out)] ELSE objs
    /\ pending' = StillHeld(pending, [h \in Installed |-> out[h].self])

\* class construction binds the declared descriptors to an attribute name
SetName(name) ==
    /\ desc' = [h \in Installed |-> Descriptor__set_name__(desc[h], name)]
    /\ UNCHANGED <<objs, pending, written, ctor>>

\* an instance of the class is created; id() is unique among live objects
Create(o, id) ==
    /\ objs[o].status = "unborn"
    /\ \A p \in Objs : p < o => objs[p].status # "unborn"
    /\ \A p \in Live : objs[p].id # id
    /\ objs' = [objs EXCEPT ![o] = [obj |-> o, status |-> "live", id |-> id,
                                     hasDict |-> ctor.hasDict,
                                     weakrefable |-> ctor.weakrefable,
                                     dict |-> EmptyDict]]
    /\ UNCHANGED <<desc, pending, written, ctor>>

\* instance.attr, through every declared descriptor
Get(o) ==
    /\ o \in Live
    /\ Ran(o, [h \in Installed |-> Dispatch__get__(desc[h], objs[o])])
    /\ UNCHANGED <<written, ctor>>

\* Class.attr, through every declared descriptor
ClassGet ==
    /\ Ran(0, [h \in Installed |-> Dispatch__get__(desc[h], NoInstance)])
    /\ UNCHANGED <<written, ctor>>

\* instance.attr = value, through every declared descriptor
Set(o, value) ==
    /\ o \in Live
    /\ LET out == [h \in Installed |-> Dispatch__set__(desc[h], objs[o], value)]
       IN  /\ Ran(o, out)
           /\ written' = [h \in Installed |->
                            IF IsException(out[h].res) THEN written[h]
                            ELSE [written[h] EXCEPT ![o] = value]]
    /\ UNCHANGED ctor

\* del instance.attr, through every declared descriptor
Delete(o) ==
    /\ o \in Live
    /\ Ran(o, [h \in Installed |-> Dispatch__delete__(desc[h], objs[o])])
    /\ UNCHANGED <<written, ctor>>

\* the owning object becomes unreachable; the callbacks of the weak
\* references to it are due from now on
Destroy(o) ==
    /\ o \in Live
    /\ ~KeptReachable(o)
    /\ objs' = [objs EXCEPT ![o] = Gone(o, "dead")]
    /\ pending' = pending \cup
                     UNION {{[kind |-> h, ref |-> w] :
                                w \in {x \in HeldRefs(desc[h]) : x.obj = o}} :
                            h \in Installed}
    /\ written' = [h \in Installed |-> [written[h] EXCEPT ![o] = NotWritten]]
    /\ UNCHANGED <<desc, ctor>>

\* the weakref machinery calls self._delete_reference(weak_ref)
Cleanup(p) ==
    /\ p \in pending
    /\ desc' = [desc EXCEPT ![p.kind] =
                    BaseSlottableDataDescriptor_delete_reference(@, p.ref)]
    /\ pending' = pending \ {p}
    /\ UNCHANGED <<objs, written, ctor>>

Next ==
    \/ \E name \in Names : SetName(name)
    \/ \E o \in Objs, id \in Ids : Create(o, id)
    \/ \E o \in Objs : Get(o)
    \/ ClassGet
    \/ \E o \in Objs : \E value \in Writes(o) : Set(o, value)
    \/ \E o \in Objs : Delete(o)
    \/ \E o \in Objs : Destroy(o)
    \/ \E p \in pending : Cleanup(p)

Spec == Init /\ [][Next]_vars

\* ================================================================ claims
\* what instance.attr, instance.attr = value and del instance.attr answer
\* through the descriptor of kind h
Read(h, o) == Dispatch__get__(desc[h], objs[o]).res
Write(h, o, value) == Dispatch__set__(desc[h], objs[o], value).res
Del(h, o) == Dispatch__delete__(desc[h], objs[o]).res
ClassRead(h) == Dispatch__get__(desc[h], NoInstance).res
Writable == Installed \cap WritableKinds
Slottable == Installed \cap SlottableKinds
Field == Installed \cap FieldKinds

\* C1: a write of v through owner o that succeeds makes read(o) return v,
\* and read(o) keeps returning the written value across every step that
\* is a read, a class access, a failed delete, a creation, a write through
\* or a destruction of another owner, or a cleanup callback.
\* (stated step by step: a step after which read(o) is not v is no successful
\* write of v; a step that changes what read(o) returns from the written
\* value is a write through o or a re-binding of the name)
C1_ReadReturnsLastWrite ==
    [][\A h \in Writable, o \in Live :
          /\ \A v \in Writes(o) :
                (Read(h, o)' # v /\ ~IsException(Write(h, o, v))) => ~Set(o, v)
          /\ (/\ o \in Live'
              /\ written[h][o] # NotWritten
              /\ Read(h, o) = written[h][o]
              /\ Read(h, o)' # written[h][o])
             => \/ \E v \in Writes(o) : Set(o, v)
                \/ \E name \in Names : SetName(name)]_vars

\* C1 witness: the cleanup callback of a destroyed owner has run (its
\* record is gone, nothing is pending) while a live owner holds a value it
\* wrote through a slottable descriptor, and reads it
C1_Witness ==
    /\ pending = {}
    /\ \E o \in Objs : objs[o].status = "dead"
    /\ \E h \in Slottable, o \in Live :
          /\ written[h][o] # NotWritten
          /\ Read(h, o) = written[h][o]
          /\ DOMAIN desc[h]._references = {objs[o].id}

\* C2: with no default configured, reading through an owner that was never
\* written through raises AttributeError.
C2_UnwrittenReadFails ==
    \A h \in Writable, o \in Live :
        (desc[h].default = NO_DEFAULT /\ written[h][o] = NotWritten)
            => Read(h, o) = AttributeError

\* C3: a default-value descriptor configured with default d answers d for
\* an owner that was never written through, the last written value
\* otherwise, and never raises.
C3_DefaultReadNeverFails ==
    \A h \in Installed \cap DefaultKinds, o \in Live :
        ctor.arg # NO_DEFAULT =>
            Read(h, o) = IF written[h][o] = NotWritten THEN ctor.arg
                         ELSE written[h][o]

\* C4: a ReadOnly descriptor constructed with v answers v for every owner
\* in every state, and every write and delete through it raises
\* AttributeError (so the value read afterwards is still v).
C4_ReadOnlyIsFixed ==
    "ReadOnly" \in Installed =>
        \A o \in Live :
            /\ Read("ReadOnly", o) = ctor.arg
            /\ Del("ReadOnly", o) = AttributeError
            /\ \A v \in Writes(o) : Write("ReadOnly", o, v) = AttributeError

\* C4 witness: two owners of a bound ReadOnly descriptor read its value,
\* and a write of another value through either is refused
C4_Witness ==
    /\ "ReadOnly" \in Installed
    /\ desc["ReadOnly"]._property_name # Unbound
    /\ Live = Objs
    /\ \A o \in Live : Read("ReadOnly", o) = ctor.arg
    /\ \E v \in Values \ {ctor.arg} : \A o \in Live :
          Write("ReadOnly", o, v) = AttributeError

\* C5: delete through a writable descriptor raises AttributeError and
\* changes neither the descriptor nor the owner: every owner reads what it
\* read before.
\* (a step that changes any of them is not a delete)
C5_DeleteFailsAndKeepsState ==
    [][\A h \in Writable :
          /\ \A o \in Live' : Del(h, o)' = AttributeError
          /\ (\/ <<desc, objs, written>>' # <<desc, objs, written>>
              \/ \E p \in Live : Read(h, p)' # Read(h, p))
             => \A o \in Live : ~Delete(o)]_vars

\* C5 witness: an owner holds a value written through the field-storage
\* and the slottable descriptor, reads it through both, and its delete is
\* refused by both
C5_Witness ==
    \E h \in Slottable, g \in Field, o \in Live :
        /\ written[h][o] # NotWritten
        /\ Read(h, o) = written[h][o]
        /\ written[g][o] # NotWritten
        /\ Read(g, o) = written[g][o]
        /\ Del(h, o) = AttributeError
        /\ Del(g, o) = AttributeError

\* C6: when the cleanup callback of a destroyed owner's weak reference
\* runs, the record holding that weak reference leaves the mapping, and
\* every other record stays as it was.
C6_CleanupRemovesTheDeadOwnersRecord ==
    [][\A p \in pending :
          Cleanup(p) =>
              /\ p.ref \notin HeldRefs(desc'[p.kind])
              /\ \A k \in DOMAIN desc[p.kind]._references :
                    desc[p.kind]._references[k].reference # p.ref =>
                        /\ k \in DOMAIN desc'[p.kind]._references
                        /\ desc'[p.kind]._references[k] =
                               desc[p.kind]._references[k]]_vars

\* C7: a write through owner o1 leaves what every other live owner reads
\* through the same descriptor as it was.
\* (a step that changes what o2 reads is not a write through another owner)
C7_WriteLeavesOtherOwners ==
    [][\A h \in Writable, o2 \in Live :
          Read(h, o2)' # Read(h, o2) =>
              \A o1 \in Live \ {o2} : \A v \in Writes(o1) : ~Set(o1, v)]_vars

\* C7 witness: two live owners read, through the field-storage and the
\* slottable descriptor, the different values each wrote
C7_Witness ==
    \E h \in Slottable, g \in Field, o1 \in Live, o2 \in Live :
        /\ o1 # o2
        /\ written[h][o1] # NotWritten /\ written[h][o2] # NotWritten
        /\ written[h][o1] # written[h][o2]
        /\ Read(h, o1) = written[h][o1] /\ Read(h, o2) = written[h][o2]
        /\ Read(g, o1) = written[h][o1] /\ Read(g, o2) = written[h][o2]

\* records of a mapping whose weak reference refers to owner o
RecordsOf(self, o) ==
    {k \in DOMAIN self._references : self._references[k].reference.obj = o}

\* C8: the mapping of a slottable descriptor never holds two records for
\* one live owner; a successful write through an owner whose identity
\* already has a record leaves the set of keys as it was, and the record
\* then holds the written value and a weak reference to the owner that is
\* not the one the replaced record held.
C8_OneRecordPerLiveOwner ==
    [][\A h \in Slottable :
          /\ \A o \in Live' : Cardinality(RecordsOf(desc'[h], o)) <= 1
          /\ \A o \in Live : \A v \in Writes(o) :
                (/\ objs[o].id \in DOMAIN desc[h]._references
                 /\ ~IsException(Write(h, o, v))
                 /\ Set(o, v)) =>
                    /\ DOMAIN desc'[h]._references = DOMAIN desc[h]._references
                    /\ desc'[h]._references[objs[o].id].value = v
                    /\ desc'[h]._references[objs[o].id].reference.obj = o
                    /\ desc'[h]._references[objs[o].id].reference #
                           desc[h]._references[objs[o].id].reference]_vars

\* C8 witness: the only record of the mapping is the one a second write
\* through its owner installed (its weak reference is the second created)
C8_Witness ==
    \E h \in Slottable, o \in Live :
        /\ DOMAIN desc[h]._references = {objs[o].id}
        /\ desc[h]._references[objs[o].id].reference.wid = 2
        /\ desc[h]._references[objs[o].id].reference.obj = o
        /\ desc[h]._references[objs[o].id].value = written[h][o]

\* C9: an access through the class answers the descriptor object itself,
\* for every kind, whatever default is configured and whatever was written.
C9_ClassAccessReturnsDescriptor ==
    \A h \in Installed : ClassRead(h) = SelfOf(h)

\* C9 witness: descriptors with a default configured, written through by a
\* live owner, answer themselves to a class access
C9_Witness ==
    /\ ctor.arg # NO_DEFAULT
    /\ \E h \in Installed \cap DefaultKinds : \E o \in Live :
          /\ written[h][o] # NotWritten
          /\ ClassRead(h) = SelfOf(h)

\* the field-storage descriptor the fixtures pair a slottable one with
FieldTwin(h) ==
    IF h = "BaseSlottableDataDescriptor" THEN "BaseDataDescriptor"
    ELSE "DefaultDescriptor"

\* C10: read, write and delete through any live owner answer the same
\* through a slottable descriptor as through the field-storage descriptor
\* of its family constructed with the same default.
C10_SlottableEquivalentToFieldStorage ==
    \A h \in Slottable, o \in Live :
        /\ Read(h, o) = Read(FieldTwin(h), o)
        /\ Del(h, o) = Del(FieldTwin(h), o)
        /\ \A v \in Writes(o) : Write(h, o, v) = Write(FieldTwin(h), o, v)

\* C11: once __set_name__ has recorded an attribute name, no later step (a
\* read, a write, a delete, a cleanup callback, or a further __set_name__
\* for another attribute name or class) changes the recorded name.
C11_NameBoundOnce ==
    [][\A h \in Installed :
          desc[h]._property_name # Unbound =>
              desc'[h]._property_name = desc[h]._property_name]_vars

\* C12: a stale record is never read: what read(o) returns through a
\* slottable descriptor is never the value of a record that was written
\* through another owner, also when that owner is destroyed, its cleanup
\* callback has not run and o has been given its identity token.
C12_StaleRecordIsNeverRead ==
    \A h \in Slottable, o \in Live :
        \A k \in DOMAIN desc[h]._references :
            desc[h]._references[k].reference.obj # o =>
                ~(k = objs[o].id /\ Read(h, o) = desc[h]._references[k].value)

\* C13: in a slottable descriptor the record of a live owner stays in the
\* mapping; a record leaves the mapping only in the cleanup callback of
\* its own weak reference, whose owner is destroyed; and a record that
\* stays is changed only by a write through an owner of the same identity.
\* A weak reference a later write superseded never removes the record
\* that replaced it.
C13_LiveRecordIsNeverRemoved ==
    [][\A h \in Slottable : \A k \in DOMAIN desc[h]._references :
          LET rec == desc[h]._references[k]
          IN  /\ rec.reference.obj \in Live => k \in DOMAIN desc'[h]._references
              /\ k \notin DOMAIN desc'[h]._references =>
                    /\ objs[rec.reference.obj].status = "dead"
                    /\ \E p \in pending :
                          p.kind = h /\ p.ref = rec.reference /\ Cleanup(p)
              /\ (k \in DOMAIN desc'[h]._references
                     /\ desc'[h]._references[k] # rec) =>
                    \E o \in Live : \E v \in Writes(o) :
                        objs[o].id = k /\ Set(o, v)]_vars

\* C13 witness: the callback of a destroyed owner's weak reference is due
\* and will remove that owner's record, while a live owner holds a record
\* of its own that superseded an earlier one
C13_Witness ==
    \E h \in Slottable, o \in Live, p \in pending :
        /\ p.kind = h
        /\ p.ref.obj # o
        /\ Truthy(BaseSlottableDataDescriptor_find_weak_ref_key(desc[h], p.ref))
        /\ objs[o].id \in DOMAIN desc[h]._references
        /\ desc[h]._references[objs[o].id].reference.obj = o
        /\ desc[h]._references[objs[o].id].reference.wid = 3

\* C14: _delete_reference called with the weak reference of a record
\* removes exactly that record, whatever its key is, and called with a weak
\* reference no record holds leaves the mapping as it is.
C14_DeleteReferenceRemovesItsEntry ==
    \A h \in Slottable :
        /\ \A k \in DOMAIN desc[h]._references :
              BaseSlottableDataDescriptor_delete_reference(
                      desc[h], desc[h]._references[k].reference)
                  = [desc[h] EXCEPT !._references = DictDel(@, k)]
        /\ \A o \in Objs :
              LET w == [wid |-> 0, obj |-> o]
              IN  BaseSlottableDataDescriptor_delete_reference(desc[h], w) = desc[h]

\* C15: a write through a writable descriptor never raises, whatever the
\* owner (with or without a __dict__, weakly referenceable or not, name
\* bound or not) and whatever the value.
C15_WriteIsTotal ==
    \A h \in Writable, o \in Live :
        \A v \in Writes(o) : ~IsException(Write(h, o, v))

\* C16: no record of a descriptor keeps an owner reachable: whatever was
\* written, an instance itself included, a live owner the driver lets go of
\* can be destroyed.
C16_HookNeverKeepsOwnerReachable ==
    \A o \in Live : ~KeptReachable(o)

\* C17: a read changes nothing: __get__ through any owner and through the
\* class leaves the descriptor (mapping, default, recorded name) and the
\* owner's __dict__ as they were, whether it answers a stored value, the
\* default, or raises; so the read that follows answers the same.
C17_ReadHasNoSideEffect ==
    \A h \in Installed :
        /\ Dispatch__get__(desc[h], NoInstance).self = desc[h]
        /\ \A o \in Live :
              LET out == Dispatch__get__(desc[h], objs[o])
              IN  /\ out.self = desc[h]
                  /\ out.instance = objs[o]
                  /\ Dispatch__get__(out.self, out.instance).res = out.res

\* C17 witness: through descriptors with a default configured, one owner
\* reads the value it wrote and another, never written through, reads the
\* default, which its __dict__ and the mapping still do not hold
C17_Witness ==
    \E h \in Slottable \cap DefaultKinds, g \in Field \cap DefaultKinds :
        \E o1 \in Live, o2 \in Live :
            /\ written[h][o1] # NotWritten /\ Read(h, o1) = written[h][o1]
            /\ written[g][o1] # NotWritten /\ Read(g, o1) = written[g][o1]
            /\ ctor.arg \in Values
            /\ Read(h, o2) = ctor.arg /\ objs[o2].id \notin DOMAIN desc[h]._references
            /\ Read(g, o2) = ctor.arg /\ objs[o2].dict = EmptyDict

====
